---- MODULE Spec2Model ----
(***************************************************************************)
(* A model of csv-filter: a CSV file is routed row by row into output      *)
(* files according to a list of filter configurations (filter stage), and  *)
(* every output file is then sorted by its configured columns (sort        *)
(* stage).                                                                 *)
(*                                                                         *)
(* Strings that the program compares (column values, min/max bounds) are   *)
(* sequences of bytes, and so are column names, which share the files with *)
(* the values; output file names, only tested for equality, are TLA+       *)
(* strings.  An Option<T> is a sequence of length at most one: <<>> is     *)
(* None, <<x>> is Some(x).                                                 *)
(***************************************************************************)
EXTENDS Integers, Sequences, FiniteSets, TLC

VARIABLES
    \* the run: process (src/lib.rs) and filter, process_csv (lib/filter)
    pc,                 \* the statement the main thread is at
    error,              \* the message of the main thread's panic, or ""
    config_file,             \* the deserialized configuration, as declared
    filter_parallelism, \* the requested number of filter threads
    filter_configs,            \* all_filter_configs
    disk,               \* output file name -> Option of its records on disk
    output_files,       \* OutputFileMap: output file name -> writer
    lock,               \* output file name -> thread holding its Mutex, or 0
    input_header,       \* the first record of the input file
    input_rows,         \* the data records read from the input so far
    headers_map,            \* HeadersMap
    pending_record,         \* Option of the record the reader is about to send
    queue,              \* the bounded channel of records
    sender_open,        \* channel_sender is alive
    threads,            \* the filter threads
    joined,             \* how many filter threads the main thread has joined
    \* the sort stage: sort_output_files (lib/sort)
    no_sort,            \* Option of the no_sort argument, once it is read
    sort_parallelism,   \* Option of the requested number of sort threads
    sort_max_threads,   \* the number of sort threads
    sort_files,         \* SortConfig: path -> Option of the sort columns
    sort_queue,         \* the bounded channel of (path, sort columns)
    sort_sender_open,   \* its channel_sender is alive
    sort_threads,       \* the sort threads
    sort_joined,        \* how many sort threads the main thread has joined
    dispatched,         \* history: Option of the files as the filter stage left them
    \* the function specifications
    fin,                \* arguments of the function under test
    fout                \* Option of its result

(***************************************************************************)
(* Bounds of the model.                                                    *)
(***************************************************************************)
MaxStrLen ==
    2

MaxFilters ==
    2

MaxSortCols ==
    2

MaxRecords ==
    3

MaxRows ==
    3

MaxThreads ==
    2

MaxSortThreads ==
    2

\* Stands for the capacity of the record channel (1024 in the program).
QueueCap ==
    1

\* Stands for the capacity of a csv::Writer's buffer, counted in records.
BufCap ==
    1

\* The capacity of the channel of sort jobs.
SortQueueCap ==
    256

(***************************************************************************)
(* Option and sequence helpers.                                            *)
(***************************************************************************)
None ==
    <<>>

Some(x) ==
    <<x>>

IsSome(o) ==
    o # <<>>

Unwrap(o) ==
    o[1]

Opt(S) ==
    {None} \cup {Some(x) : x \in S}

Range(s) ==
    {s[i] : i \in 1..Len(s)}

SeqsUpTo(S, n) ==
    UNION {[1..k -> S] : k \in 0..n}

Max(a, b) ==
    IF a >= b THEN a ELSE b

Min(a, b) ==
    IF a <= b THEN a ELSE b

(***************************************************************************)
(* Strings and their ordering.  Rust compares String values byte by byte;  *)
(* a proper prefix is smaller than the longer string.                      *)
(***************************************************************************)
Alphabet ==
    {1, 2}

Str ==
    SeqsUpTo(Alphabet, MaxStrLen)

\* Column names: one letter each, and letters sort after the digits of
\* the values.
ColA ==
    <<3>>

ColB ==
    <<4>>

RECURSIVE str_cmp(_, _)
str_cmp(s, t) ==
    IF s = <<>> THEN (IF t = <<>> THEN 0 ELSE -1)
    ELSE IF t = <<>> THEN 1
    ELSE IF s[1] < t[1] THEN -1
    ELSE IF s[1] > t[1] THEN 1
    ELSE str_cmp(Tail(s), Tail(t))

str_lt(s, t) ==
    str_cmp(s, t) < 0

str_gt(s, t) ==
    str_cmp(t, s) < 0

(***************************************************************************)
(* Configuration data (lib/config): ColumnFilter and FilterConfig.         *)
(***************************************************************************)
ColumnFilter(column, include, values, min, max) ==
    [column |-> column, include |-> include, values |-> values,
     min |-> min, max |-> max]

FilterConfig(filters, output, sort_columns) ==
    [filters |-> filters, output |-> output, sort_columns |-> sort_columns]

(***************************************************************************)
(* Filter stage, pure part (lib/filter).                                   *)
(***************************************************************************)
\* The map from a column name to its 0-based index; a repeated name keeps
\* the index of its last occurrence (HashMap::insert overwrites).
RECURSIVE headers_insert(_, _, _)
headers_insert(hdr, index, map) ==
    IF index >= Len(hdr) THEN map
    ELSE LET h == hdr[index + 1]
             m == [n \in DOMAIN map \cup {h} |-> IF n = h THEN index ELSE map[n]]
         IN  headers_insert(hdr, index + 1, m)

create_headers_map(hdr) ==
    headers_insert(hdr, 0, [n \in {} |-> 0])

\* Lines 152-168 with a strict lower bound (rejects a value equal to min).
column_value_allowed_strict(column_filter, column_value) ==
    IF IsSome(column_filter.values)
          /\ column_value \notin Unwrap(column_filter.values) THEN FALSE
    ELSE IF IsSome(column_filter.min)
          /\ ~ str_gt(column_value, Unwrap(column_filter.min)) THEN FALSE
    ELSE IF IsSome(column_filter.max)
          /\ str_gt(column_value, Unwrap(column_filter.max)) THEN FALSE
    ELSE TRUE

\* The three checks on the value of one column: values, then min, then max.
column_value_allowed(column_filter, column_value) ==
    IF IsSome(column_filter.values)
          /\ column_value \notin Unwrap(column_filter.values) THEN FALSE
    ELSE IF IsSome(column_filter.min)
          /\ str_lt(column_value, Unwrap(column_filter.min)) THEN FALSE
    ELSE IF IsSome(column_filter.max)
          /\ str_gt(column_value, Unwrap(column_filter.max)) THEN FALSE
    ELSE TRUE

\* One pass of the loop with a column that is not in the header rejecting
\* the record.
column_filter_passes_absent_rejects(csv_record, column_filter, headers) ==
    IF column_filter.column \in DOMAIN headers
    THEN column_value_allowed(column_filter,
                              csv_record[headers[column_filter.column] + 1])
    ELSE FALSE

\* One pass of the loop over config.filters: a column that is not in the
\* header is skipped.
column_filter_passes(csv_record, column_filter, headers) ==
    IF column_filter.column \in DOMAIN headers
    THEN column_value_allowed(column_filter,
                              csv_record[headers[column_filter.column] + 1])
    ELSE TRUE

RECURSIVE record_matches_from(_, _, _, _)
record_matches_from(csv_record, config, headers, i) ==
    IF i > Len(config.filters) THEN TRUE
    ELSE IF ~ column_filter_passes(csv_record, config.filters[i], headers)
         THEN FALSE
         ELSE record_matches_from(csv_record, config, headers, i + 1)

record_matches_filter_config(csv_record, config, headers) ==
    record_matches_from(csv_record, config, headers, 1)

\* Every column of the configuration, included or not.
get_output_columns_all(config) ==
    [i \in 1..Len(config.filters) |-> config.filters[i].column]

\* The names of the columns with include = true, in declaration order.
get_output_columns(config) ==
    LET included == SelectSeq(config.filters, LAMBDA f : f.include)
    IN  [i \in 1..Len(included) |-> included[i].column]

\* The loop of build_output_record.  It panics ("Cannot find index of
\* header") at the first output column that is not in the header: ok is
\* FALSE and column names it.
RECURSIVE build_output_from(_, _, _, _, _)
build_output_from(csv_record, output_column_names, headers, i, vec) ==
    IF i > Len(output_column_names)
    THEN [ok |-> TRUE, vec |-> vec, column |-> <<>>]
    ELSE IF output_column_names[i] \notin DOMAIN headers
         THEN [ok |-> FALSE, vec |-> <<>>, column |-> output_column_names[i]]
         ELSE build_output_from(
                  csv_record, output_column_names, headers, i + 1,
                  Append(vec, csv_record[headers[output_column_names[i]] + 1]))

\* build_output_record that leaves out the output columns the header does
\* not have.
build_output_record_skipping(csv_record, config, headers) ==
    LET present == SelectSeq(get_output_columns(config),
                             LAMBDA c : c \in DOMAIN headers)
    IN  [ok |-> TRUE,
         vec |-> [k \in 1..Len(present) |-> csv_record[headers[present[k]] + 1]],
         column |-> <<>>]

build_output_record(csv_record, config, headers) ==
    build_output_from(csv_record, get_output_columns(config), headers, 1, <<>>)

(***************************************************************************)
(* Configuration validation (src/lib.rs).                                  *)
(***************************************************************************)
\* The Err(String) of validate_config: the check that failed, the output
\* file name the message quotes and, for a sort column, the column it quotes.
ValidationError(kind, output, column) ==
    [ok |-> FALSE, kind |-> kind, output |-> output, column |-> column]

ValidationOk ==
    [ok |-> TRUE, kind |-> "", output |-> "", column |-> <<>>]

\* The included columns as validate_config collects them.
included_columns_of(config) ==
    LET included == SelectSeq(config.filters, LAMBDA f : f.include)
    IN  [i \in 1..Len(included) |-> included[i].column]

\* The loop over sort_columns: the first one that is not an included column.
RECURSIVE check_sort_columns(_, _, _, _)
check_sort_columns(config, sort_columns, included_columns, i) ==
    IF i > Len(sort_columns) THEN ValidationOk
    ELSE IF sort_columns[i] \notin Range(included_columns)
         THEN ValidationError("sort_column", config.output, sort_columns[i])
         ELSE check_sort_columns(config, sort_columns, included_columns, i + 1)

\* validate_config requiring a value-set to come with both a minimum and a
\* maximum before it objects.
validate_config_both_bounds(config) ==
    IF \A i \in 1..Len(config.filters) : config.filters[i].include = FALSE
    THEN ValidationError("no_output_columns", config.output, <<>>)
    ELSE IF \E i \in 1..Len(config.filters) :
                /\ IsSome(config.filters[i].values)
                /\ IsSome(config.filters[i].max) /\ IsSome(config.filters[i].min)
    THEN ValidationError("values_and_range", config.output, <<>>)
    ELSE IF IsSome(config.sort_columns)
    THEN check_sort_columns(config, Unwrap(config.sort_columns),
                            included_columns_of(config), 1)
    ELSE ValidationOk

validate_config(config) ==
    IF \A i \in 1..Len(config.filters) : config.filters[i].include = FALSE
    THEN ValidationError("no_output_columns", config.output, <<>>)
    ELSE IF \E i \in 1..Len(config.filters) :
                /\ IsSome(config.filters[i].values)
                /\ (IsSome(config.filters[i].max) \/ IsSome(config.filters[i].min))
    THEN ValidationError("values_and_range", config.output, <<>>)
    ELSE IF IsSome(config.sort_columns)
    THEN check_sort_columns(config, Unwrap(config.sort_columns),
                            included_columns_of(config), 1)
    ELSE ValidationOk

(***************************************************************************)
(* Sort stage, pure part (lib/sort).  A file is the sequence of its        *)
(* records; the first record is the header.                                *)
(***************************************************************************)
\* The 0-based indexes, from position index on, at which header_row holds
\* sort_column (the inner loop of get_sort_order).
RECURSIVE sort_column_indexes(_, _, _)
sort_column_indexes(header_row, sort_column, index) ==
    IF index >= Len(header_row) THEN <<>>
    ELSE (IF str_cmp(sort_column, header_row[index + 1]) = 0
          THEN <<index>> ELSE <<>>)
         \o sort_column_indexes(header_row, sort_column, index + 1)

RECURSIVE get_sort_order_from(_, _, _)
get_sort_order_from(header_row, sort_columns, i) ==
    IF i > Len(sort_columns) THEN <<>>
    ELSE sort_column_indexes(header_row, sort_columns[i], 0)
         \o get_sort_order_from(header_row, sort_columns, i + 1)

get_sort_order(header_row, sort_columns) ==
    get_sort_order_from(header_row, sort_columns, 1)

\* The loop of record_comparator: the first column that differs decides.
\* The result is -1 (Less), 0 (Equal) or 1 (Greater).
RECURSIVE record_comparator_from(_, _, _, _, _)
record_comparator_from(a, b, header_map, i, order) ==
    IF i > Len(header_map) THEN order
    ELSE IF order # 0 THEN order
    ELSE record_comparator_from(
             a, b, header_map, i + 1,
             str_cmp(a[header_map[i] + 1], b[header_map[i] + 1]))

\* The loop without its early return: the last column decides.
RECURSIVE record_comparator_last_from(_, _, _, _, _)
record_comparator_last_from(a, b, header_map, i, order) ==
    IF i > Len(header_map) THEN order
    ELSE record_comparator_last_from(
             a, b, header_map, i + 1,
             str_cmp(a[header_map[i] + 1], b[header_map[i] + 1]))

record_comparator_last_column(a, b, header_map) ==
    record_comparator_last_from(a, b, header_map, 1, 0)

record_comparator(a, b, header_map) ==
    record_comparator_from(a, b, header_map, 1, 0)

\* insert_record that leaves out a record that compares Equal to one
\* already placed.
RECURSIVE insert_record_unique(_, _, _)
insert_record_unique(sorted, r, sort_order) ==
    IF sorted = <<>> THEN <<r>>
    ELSE IF record_comparator(r, Head(sorted), sort_order) < 0
         THEN <<r>> \o sorted
         ELSE IF record_comparator(r, Head(sorted), sort_order) = 0
         THEN sorted
         ELSE <<Head(sorted)>> \o insert_record_unique(Tail(sorted), r, sort_order)

\* insert_record that places a record before the records it compares
\* Equal to.
RECURSIVE insert_record_before_ties(_, _, _)
insert_record_before_ties(sorted, r, sort_order) ==
    IF sorted = <<>> THEN <<r>>
    ELSE IF record_comparator(r, Head(sorted), sort_order) <= 0
         THEN <<r>> \o sorted
         ELSE <<Head(sorted)>>
                \o insert_record_before_ties(Tail(sorted), r, sort_order)

\* Vec::sort_by is a stable sort: a record goes behind every record that
\* is not greater than it.  insert_record places r into a sorted sequence
\* whose records all came before r.
RECURSIVE insert_record(_, _, _)
insert_record(sorted, r, sort_order) ==
    IF sorted = <<>> THEN <<r>>
    ELSE IF record_comparator(r, Head(sorted), sort_order) < 0
         THEN <<r>> \o sorted
         ELSE <<Head(sorted)>> \o insert_record(Tail(sorted), r, sort_order)

\* The records from i on are placed one after the other; placed is bound
\* to the sequence with records[i] in it before the rest is placed.
RECURSIVE sort_by_from(_, _, _, _)
sort_by_from(records, sort_order, i, sorted) ==
    IF i > Len(records) THEN sorted
    ELSE CHOOSE result \in
            {sort_by_from(records, sort_order, i + 1, placed) :
                placed \in {insert_record(sorted, records[i], sort_order)}} :
            TRUE

\* A sort that takes the records from the last to the first.
sort_by_backwards(records, sort_order) ==
    sort_by_from([i \in 1..Len(records) |-> records[Len(records) + 1 - i]],
                 sort_order, 1, <<>>)

sort_by(records, sort_order) ==
    sort_by_from(records, sort_order, 1, <<>>)

\* The records of sort_csv_file's rewritten file: the header read from the
\* file itself, then the other records sorted.
sort_csv_file(file, sort_columns) ==
    LET header_row == Head(file)
        sort_order == get_sort_order(header_row, sort_columns)
        records == sort_by(Tail(file), sort_order)
    IN  <<header_row>> \o records

(***************************************************************************)
(* The run.  Files, writers and the main thread up to the filter threads.  *)
(***************************************************************************)
OutIds ==
    {"f1", "f2"}

EmptyMap ==
    [x \in {} |-> 0]

Reverse(s) ==
    [i \in 1..Len(s) |-> s[Len(s) + 1 - i]]

\* A csv::Writer on a file: the records it buffers and the number of fields
\* of the first record written through it.
NewWriter ==
    [buf |-> <<>>, first_field_count |-> None]

\* Writer::write_record.  A writer that is not flexible refuses a record
\* whose number of fields differs from the first record's; a full buffer is
\* written to the file (flushed) before the record is buffered.
write_record(writer, record) ==
    IF IsSome(writer.first_field_count)
          /\ Unwrap(writer.first_field_count) # Len(record)
    THEN [ok |-> FALSE, writer |-> writer, flushed |-> <<>>]
    ELSE IF Len(writer.buf) >= BufCap
    THEN [ok |-> TRUE,
          writer |-> [buf |-> <<record>>, first_field_count |-> Some(Len(record))],
          flushed |-> writer.buf]
    ELSE [ok |-> TRUE,
          writer |-> [buf |-> Append(writer.buf, record),
                      first_field_count |-> Some(Len(record))],
          flushed |-> <<>>]

\* A file that takes the records written to it at its beginning.
PrependToFile(d, output, records) ==
    [d EXCEPT ![output] = Some(records \o Unwrap(d[output]))]

\* The file after more records reach it.
AppendToFile(d, output, records) ==
    [d EXCEPT ![output] = Some(Unwrap(d[output]) \o records)]

\* Dropping the OutputFileMap drops its writers, and a dropped writer
\* flushes its buffer.
flush_all(d, of) ==
    [o \in OutIds |->
        IF o \in DOMAIN of /\ IsSome(d[o])
        THEN Some(Unwrap(d[o]) \o of[o].buf)
        ELSE d[o]]

\* read_filter_configs that hands on the configurations without looking
\* at the result of their validation.
read_filter_configs_unchecked(read_configs) ==
    [ok |-> TRUE, filters |-> Reverse(read_configs)]

\* read_filter_configs: every configuration is validated, the first Err
\* panics; the valid configurations are popped off the end of the vector,
\* which reverses them.
read_filter_configs(read_configs) ==
    IF \E i \in 1..Len(read_configs) : ~ validate_config(read_configs[i]).ok
    THEN [ok |-> FALSE, filters |-> <<>>]
    ELSE [ok |-> TRUE, filters |-> Reverse(read_configs)]

\* create_output_files: one writer per output file name; a name that occurs
\* again replaces the writer in the map.  Every file is created empty.
create_output_files(all_filter_configs) ==
    [o \in {all_filter_configs[i].output : i \in 1..Len(all_filter_configs)}
        |-> NewWriter]

\* The header record write_headers_to_output_files builds for cfg.
headers_record(cfg) ==
    LET included == SelectSeq(cfg.filters, LAMBDA f : f.include)
    IN  [i \in 1..Len(included) |-> included[i].column]

\* The loop of write_headers_to_output_files from configuration i on: the
\* header is written through the writer of cfg.output and flushed.  ok is
\* FALSE when a write fails.
RECURSIVE write_headers_from(_, _, _, _)
write_headers_from(all_filter_configs, of, d, i) ==
    IF i > Len(all_filter_configs)
    THEN [ok |-> TRUE, output_files |-> of, disk |-> d]
    ELSE LET cfg == all_filter_configs[i]
             res == write_record(of[cfg.output], headers_record(cfg))
         IN  IF ~ res.ok
             THEN [ok |-> FALSE, output_files |-> of, disk |-> d]
             ELSE write_headers_from(
                      all_filter_configs,
                      [of EXCEPT ![cfg.output] = [res.writer EXCEPT !.buf = <<>>]],
                      AppendToFile(d, cfg.output, res.flushed \o res.writer.buf),
                      i + 1)

write_headers_to_output_files(all_filter_configs, of, d) ==
    write_headers_from(all_filter_configs, of, d, 1)

filter_vars ==
    <<filter_configs, disk, output_files, lock, input_header, input_rows, headers_map,
      pending_record, queue, sender_open, threads, joined>>

sort_vars ==
    <<no_sort, sort_parallelism, sort_max_threads, sort_files, sort_queue, sort_sender_open,
      sort_threads, sort_joined, dispatched>>

fn_vars ==
    <<fin, fout>>

\* The state before process is called on the configuration cfgs.
BeforeRun(cfgs, parallelism) ==
    /\ pc = "read_filter_configs"
    /\ error = ""
    /\ config_file = cfgs
    /\ filter_parallelism = parallelism
    /\ filter_configs = <<>>
    /\ disk = [o \in OutIds |-> None]
    /\ output_files = EmptyMap
    /\ lock = [o \in OutIds |-> 0]
    /\ input_header = <<>>
    /\ input_rows = <<>>
    /\ headers_map = EmptyMap
    /\ pending_record = None
    /\ queue = <<>>
    /\ sender_open = FALSE
    /\ threads = <<>>
    /\ joined = 0
    /\ no_sort = None
    /\ sort_parallelism = None
    /\ sort_max_threads = 0
    /\ sort_files = EmptyMap
    /\ sort_queue = <<>>
    /\ sort_sender_open = FALSE
    /\ sort_threads = <<>>
    /\ sort_joined = 0
    /\ dispatched = None

\* The configurations of the runs.  RuleValues writes b, a of the records
\* with a = "1" to f1; RuleRange writes a of the records with b >= "2" to
\* f2, sorted by a; RuleShared and RuleNarrow write to f1 as well, with two
\* columns and with one; RuleEmptySort is RuleValues with an empty list of
\* sort columns; RuleNoOutput and RuleBadSort are not valid.
RuleValues ==
    FilterConfig(<< ColumnFilter(ColB, TRUE, None, None, None),
                    ColumnFilter(ColA, TRUE, Some({<<1>>}), None, None) >>,
                 "f1", None)

RuleRange ==
    FilterConfig(<< ColumnFilter(ColA, TRUE, None, None, None),
                    ColumnFilter(ColB, FALSE, None, Some(<<2>>), None) >>,
                 "f2", Some(<<ColA>>))

RuleShared ==
    FilterConfig(<< ColumnFilter(ColA, TRUE, None, None, None),
                    ColumnFilter(ColB, TRUE, None, None, None) >>,
                 "f1", Some(<<ColB>>))

RuleNarrow ==
    FilterConfig(<< ColumnFilter(ColA, TRUE, None, None, None) >>,
                 "f1", None)

RuleEmptySort ==
    FilterConfig(<< ColumnFilter(ColB, TRUE, None, None, None),
                    ColumnFilter(ColA, TRUE, Some({<<1>>}), None, None) >>,
                 "f1", Some(<<>>))

RuleNoOutput ==
    FilterConfig(<< ColumnFilter(ColA, FALSE, None, None, Some(<<1>>)) >>,
                 "f2", None)

RuleBadSort ==
    FilterConfig(<< ColumnFilter(ColA, TRUE, None, None, None),
                    ColumnFilter(ColB, FALSE, None, None, None) >>,
                 "f2", Some(<<ColB>>))

Configs ==
    { <<RuleValues, RuleRange>>,
      <<RuleShared, RuleEmptySort>>,
      <<RuleValues, RuleNarrow>>,
      <<RuleValues, RuleNoOutput>>, <<RuleBadSort, RuleValues>> }

InputHeaders ==
    {<<ColB, ColA>>, <<ColA>>}

InputValues ==
    {<<1>>, <<2>>}

\* The data records of the input: with two fields, the record 2, 1 and the
\* record 1, 2 (under the header b, a the first matches RuleValues and
\* RuleRange, the second neither); with one field, 1 and 2.
InputRows ==
    {row \in UNION {[1..n -> InputValues] : n \in 1..2} :
        \A i, j \in DOMAIN row : row[i] = row[j] => i = j}

Init ==
    /\ \E cfgs \in Configs, parallelism \in 0..MaxThreads :
            BeforeRun(cfgs, parallelism)
    /\ fin = None
    /\ fout = None

\* process up to the call of filter: the configuration is read and
\* validated.
ReadFilterConfigs ==
    /\ pc = "read_filter_configs"
    /\ LET res == read_filter_configs(config_file)
       IN  IF res.ok
           THEN /\ filter_configs' = res.filters
                /\ pc' = "create_output_files"
                /\ UNCHANGED error
           ELSE /\ pc' = "panicked"
                /\ error' = "Invalid configuration"
                /\ UNCHANGED filter_configs
    /\ UNCHANGED <<config_file, filter_parallelism, disk, output_files, lock,
                   input_header, input_rows, headers_map, pending_record, queue,
                   sender_open, threads, joined>>
    /\ UNCHANGED <<sort_vars, fn_vars>>

\* filter, line 44.
CreateOutputFiles ==
    /\ pc = "create_output_files"
    /\ output_files' = create_output_files(filter_configs)
    /\ disk' = [o \in OutIds |->
                    IF o \in DOMAIN create_output_files(filter_configs)
                    THEN Some(<<>>) ELSE disk[o]]
    /\ pc' = "write_headers"
    /\ UNCHANGED <<error, config_file, filter_parallelism, filter_configs, lock,
                   input_header, input_rows, headers_map, pending_record, queue,
                   sender_open, threads, joined>>
    /\ UNCHANGED <<sort_vars, fn_vars>>

\* filter, line 45.  A failed write panics; the unwinding drops the map
\* and its writers.
WriteHeaders ==
    /\ pc = "write_headers"
    /\ LET res == write_headers_to_output_files(filter_configs, output_files, disk)
       IN  IF res.ok
           THEN /\ output_files' = res.output_files
                /\ disk' = res.disk
                /\ pc' = "open_input"
                /\ UNCHANGED error
           ELSE /\ output_files' = EmptyMap
                /\ disk' = flush_all(res.disk, res.output_files)
                /\ pc' = "panicked"
                /\ error' = "Error writing headers to output CSV file"
    /\ UNCHANGED <<config_file, filter_parallelism, filter_configs, lock,
                   input_header, input_rows, headers_map, pending_record, queue,
                   sender_open, threads, joined>>
    /\ UNCHANGED <<sort_vars, fn_vars>>

\* process_csv, lines 67-72: the input file is opened and its first record
\* read.  A file that cannot be opened panics.
OpenInput ==
    /\ pc = "open_input"
    /\ \/ /\ \E hdr \in InputHeaders :
                /\ input_header' = hdr
                /\ headers_map' = create_headers_map(hdr)
          /\ pc' = "spawn_threads"
          /\ UNCHANGED <<error, output_files, disk>>
       \/ /\ pc' = "panicked"
          /\ error' = "Cannot read CSV file"
          /\ output_files' = EmptyMap
          /\ disk' = flush_all(disk, output_files)
          /\ UNCHANGED <<input_header, headers_map>>
    /\ UNCHANGED <<config_file, filter_parallelism, filter_configs, lock, input_rows,
                   pending_record, queue, sender_open, threads, joined>>
    /\ UNCHANGED <<sort_vars, fn_vars>>

(***************************************************************************)
(* The filter stage: the reader (main thread) and the filter threads.      *)
(***************************************************************************)
\* As many threads as requested, none for a request of 0.
filter_max_threads_as_requested ==
    filter_parallelism

filter_max_threads ==
    Max(1, filter_parallelism)

\* A filter thread waiting for a record.  A thread holds the record it
\* received, the index i of the configuration it is at, and the output
\* record it built; error is the message of its panic.
IdleThread ==
    [pc |-> "recv", csv_record |-> None, i |-> 0, output_record |-> None,
     error |-> ""]

PanickedThread(thread, message) ==
    [thread EXCEPT !.pc = "panicked", !.error = message]

\* A join that returns at once, whatever the thread is doing.
ThreadEndedOrRunning(thread) ==
    TRUE

ThreadEnded(thread) ==
    thread.pc \in {"exited", "panicked"}

\* The main thread panicked: the process is exiting and no thread runs on.
ProcessAlive ==
    pc # "panicked"

\* process_csv, lines 76-97.
SpawnThreads ==
    /\ pc = "spawn_threads"
    /\ threads' = [t \in 1..filter_max_threads |-> IdleThread]
    /\ queue' = <<>>
    /\ sender_open' = TRUE
    /\ pc' = "read_record"
    /\ UNCHANGED <<error, config_file, filter_parallelism, filter_configs, disk,
                   output_files, lock, input_header, input_rows, headers_map,
                   pending_record, joined>>
    /\ UNCHANGED <<sort_vars, fn_vars>>

\* process_csv, lines 101-102 and 109: the next record of the input, or
\* its end, at which the sender is dropped.
ReadRecord ==
    /\ pc = "read_record"
    /\ \/ /\ Len(input_rows) < MaxRows
          /\ \E row \in {r \in InputRows : Len(r) = Len(input_header)} :
                /\ pending_record' = Some(row)
                /\ input_rows' = Append(input_rows, row)
          /\ pc' = "send"
          /\ UNCHANGED sender_open
       \/ /\ sender_open' = FALSE
          /\ pc' = "join"
          /\ UNCHANGED <<pending_record, input_rows>>
    /\ UNCHANGED <<error, config_file, filter_parallelism, filter_configs, disk,
                   output_files, lock, input_header, headers_map, queue,
                   threads, joined>>
    /\ UNCHANGED <<sort_vars, fn_vars>>

\* A send on a channel without a capacity: it never blocks.
SendRecordUnbounded ==
    /\ pc = "send"
    /\ queue' = Append(queue, Unwrap(pending_record))
    /\ pending_record' = None
    /\ pc' = "read_record"
    /\ UNCHANGED <<error, config_file, filter_parallelism, filter_configs, disk,
                   output_files, lock, input_header, input_rows, headers_map,
                   sender_open, threads, joined>>
    /\ UNCHANGED <<sort_vars, fn_vars>>

\* process_csv, lines 103-105: send blocks while the channel is full.
SendRecord ==
    /\ pc = "send"
    /\ Len(queue) < QueueCap
    /\ queue' = Append(queue, Unwrap(pending_record))
    /\ pending_record' = None
    /\ pc' = "read_record"
    /\ UNCHANGED <<error, config_file, filter_parallelism, filter_configs, disk,
                   output_files, lock, input_header, input_rows, headers_map,
                   sender_open, threads, joined>>
    /\ UNCHANGED <<sort_vars, fn_vars>>

\* process_csv, lines 110-112, and the return of filter.  The threads are
\* joined in the order they were spawned; joining a thread that panicked
\* panics.  The map's writers are dropped, and flush, once no thread holds
\* the map any more.
JoinThread ==
    /\ pc = "join"
    /\ joined < Len(threads)
    /\ ThreadEnded(threads[joined + 1])
    /\ IF threads[joined + 1].pc = "panicked"
       THEN /\ pc' = "panicked"
            /\ error' = "Cannot join thread."
            /\ output_files' = EmptyMap
            /\ disk' = IF \A t \in 1..Len(threads) : ThreadEnded(threads[t])
                       THEN flush_all(disk, output_files)
                       ELSE disk
            /\ UNCHANGED joined
       ELSE /\ joined' = joined + 1
            /\ IF joined + 1 = Len(threads)
               THEN /\ pc' = "filter_done"
                    /\ output_files' = EmptyMap
                    /\ disk' = flush_all(disk, output_files)
               ELSE UNCHANGED <<pc, output_files, disk>>
            /\ UNCHANGED error
    /\ UNCHANGED <<config_file, filter_parallelism, filter_configs, lock,
                   input_header, input_rows, headers_map, pending_record,
                   queue, sender_open, threads>>
    /\ UNCHANGED <<sort_vars, fn_vars>>

thread_frame ==
    <<pc, error, config_file, filter_parallelism, filter_configs,
      input_header, input_rows, headers_map, pending_record, sender_open,
      joined>>

\* A receiver that yields records only once the sender is dropped.
RecvAfterClose(t) ==
    /\ ProcessAlive
    /\ threads[t].pc = "recv"
    /\ queue # <<>>
    /\ ~ sender_open
    /\ threads' = [threads EXCEPT ![t] =
            [IdleThread EXCEPT !.pc = "filter", !.csv_record = Some(Head(queue)),
                               !.i = 1]]
    /\ queue' = Tail(queue)
    /\ UNCHANGED <<thread_frame, disk, output_files, lock>>
    /\ UNCHANGED <<sort_vars, fn_vars>>

\* A broadcast channel: the record goes to every thread that waits for one.
RecvBroadcast(t) ==
    /\ ProcessAlive
    /\ threads[t].pc = "recv"
    /\ queue # <<>>
    /\ threads' = [u \in DOMAIN threads |->
            IF threads[u].pc = "recv"
            THEN [IdleThread EXCEPT !.pc = "filter",
                                    !.csv_record = Some(Head(queue)), !.i = 1]
            ELSE threads[u]]
    /\ queue' = Tail(queue)
    /\ UNCHANGED <<thread_frame, disk, output_files, lock>>
    /\ UNCHANGED <<sort_vars, fn_vars>>

\* The receiver's iterator yields the next record of the channel.
Recv(t) ==
    /\ ProcessAlive
    /\ threads[t].pc = "recv"
    /\ queue # <<>>
    /\ threads' = [threads EXCEPT ![t] =
            [IdleThread EXCEPT !.pc = "filter", !.csv_record = Some(Head(queue)),
                               !.i = 1]]
    /\ queue' = Tail(queue)
    /\ UNCHANGED <<thread_frame, disk, output_files, lock>>
    /\ UNCHANGED <<sort_vars, fn_vars>>

\* An iterator that ends as soon as the channel is empty.
ExitOnEmpty(t) ==
    /\ ProcessAlive
    /\ threads[t].pc = "recv"
    /\ queue = <<>>
    /\ threads' = [threads EXCEPT ![t].pc = "exited"]
    /\ UNCHANGED <<thread_frame, disk, output_files, lock, queue>>
    /\ UNCHANGED <<sort_vars, fn_vars>>

\* The iterator ends when the channel is empty and its sender dropped.
Exit(t) ==
    /\ ProcessAlive
    /\ threads[t].pc = "recv"
    /\ queue = <<>>
    /\ ~ sender_open
    /\ threads' = [threads EXCEPT ![t].pc = "exited"]
    /\ UNCHANGED <<thread_frame, disk, output_files, lock, queue>>
    /\ UNCHANGED <<sort_vars, fn_vars>>

\* A thread that is done with a record after its first configuration.
next_filter_first_only(thread) ==
    IdleThread

\* The thread after it is done with configuration i.
next_filter(thread) ==
    IF thread.i >= Len(filter_configs)
    THEN IdleThread
    ELSE [thread EXCEPT !.pc = "filter", !.i = thread.i + 1,
                        !.output_record = None]

\* process_csv_record, lines 129-131: one configuration is tried on the
\* record, and the output record built if it matches.
FilterRecord(t) ==
    /\ ProcessAlive
    /\ threads[t].pc = "filter"
    /\ LET thread == threads[t]
           filter_config == filter_configs[thread.i]
           record == Unwrap(thread.csv_record)
           output == build_output_record(record, filter_config, headers_map)
       IN  threads' = [threads EXCEPT ![t] =
                IF ~ record_matches_filter_config(record, filter_config, headers_map)
                THEN next_filter(thread)
                ELSE IF ~ output.ok
                THEN PanickedThread(thread, "Cannot find index of header")
                ELSE [thread EXCEPT !.pc = "lock",
                                    !.output_record = Some(output.vec)]]
    /\ UNCHANGED <<thread_frame, disk, output_files, lock, queue>>
    /\ UNCHANGED <<sort_vars, fn_vars>>

\* A lock that is taken whether or not another thread holds it.
LockWriterUnguarded(t) ==
    /\ ProcessAlive
    /\ threads[t].pc = "lock"
    /\ lock' = [lock EXCEPT ![filter_configs[threads[t].i].output] = t]
    /\ threads' = [threads EXCEPT ![t].pc = "write"]
    /\ UNCHANGED <<thread_frame, disk, output_files, queue>>
    /\ UNCHANGED <<sort_vars, fn_vars>>

\* A guard that is released only by a thread that goes on: the thread
\* that panics keeps the Mutex.
unlock_unless_panicked(l, output) ==
    [l EXCEPT ![output] = IF threads'[l[output]].pc = "panicked"
                          THEN l[output] ELSE 0]

\* write_record_to_file, line 192: the block of the MutexGuard ends.
unlock(l, output) ==
    [l EXCEPT ![output] = 0]

\* write_record_to_file, lines 186-190: the Mutex of the output file.
LockWriter(t) ==
    /\ ProcessAlive
    /\ threads[t].pc = "lock"
    /\ LET output == filter_configs[threads[t].i].output
       IN  /\ lock[output] = 0
           /\ lock' = [lock EXCEPT ![output] = t]
    /\ threads' = [threads EXCEPT ![t].pc = "write"]
    /\ UNCHANGED <<thread_frame, disk, output_files, queue>>
    /\ UNCHANGED <<sort_vars, fn_vars>>

\* write_record_to_file, lines 191-193: the record is written, the guard
\* dropped, and only then a failed write panics.  Besides the record the
\* writer refuses, the write fails when the writer cannot write its full
\* buffer to the file (an I/O error), which leaves file and buffer as they
\* were.
WriteRecord(t) ==
    /\ ProcessAlive
    /\ threads[t].pc = "write"
    /\ LET thread == threads[t]
           output == filter_configs[thread.i].output
           res == write_record(output_files[output], Unwrap(thread.output_record))
       IN  /\ \/ /\ output_files' = [output_files EXCEPT ![output] = res.writer]
                 /\ disk' = AppendToFile(disk, output, res.flushed)
                 /\ threads' = [threads EXCEPT ![t] =
                        IF res.ok THEN next_filter(thread)
                        ELSE PanickedThread(thread, "Error writing to CSV file")]
              \/ /\ res.flushed # <<>>
                 /\ UNCHANGED <<output_files, disk>>
                 /\ threads' = [threads EXCEPT ![t] =
                        PanickedThread(thread, "Error writing to CSV file")]
           /\ lock' = unlock(lock, output)
    /\ UNCHANGED <<thread_frame, queue>>
    /\ UNCHANGED <<sort_vars, fn_vars>>

(***************************************************************************)
(* The sort stage.                                                         *)
(***************************************************************************)
\* read_sort_config: the map from the path of an output file to the sort
\* columns of a configuration; a path that occurs again takes the sort
\* columns of the later configuration.
RECURSIVE read_sort_config_from(_, _, _)
read_sort_config_from(all_filter_configs, files, i) ==
    IF i > Len(all_filter_configs) THEN files
    ELSE LET cfg == all_filter_configs[i]
         IN  read_sort_config_from(
                 all_filter_configs,
                 [path \in DOMAIN files \cup {cfg.output} |->
                    IF path = cfg.output THEN cfg.sort_columns ELSE files[path]],
                 i + 1)

\* A sort configuration that keeps the paths and forgets the sort columns.
read_sort_config_unsorted(all_filter_configs) ==
    [path \in {all_filter_configs[i].output :
                    i \in 1..Len(all_filter_configs)} |-> None]

read_sort_config(all_filter_configs) ==
    read_sort_config_from(all_filter_configs, EmptyMap, 1)

\* A sort thread waiting for a job; file holds the records it is about to
\* write to path, header first.
IdleSortThread ==
    [pc |-> "recv", path |-> "", file |-> <<>>]

\* The csv reader of sort_csv_file refuses records of unequal lengths.
Readable(file) ==
    \A i \in 1..Len(file) : Len(file[i]) = Len(file[1])

main_frame ==
    <<error, config_file, filter_parallelism, filter_vars>>

\* process, line 44, with no_sort set.
SkipSort ==
    /\ pc = "filter_done"
    /\ no_sort' = Some(TRUE)
    /\ pc' = "done"
    /\ dispatched' = Some(disk)
    /\ UNCHANGED <<main_frame, sort_parallelism, sort_max_threads, sort_files,
                   sort_queue, sort_sender_open, sort_threads, sort_joined>>
    /\ UNCHANGED fn_vars

\* process, lines 44-51, and sort_output_files, lines 36-53.
StartSort ==
    /\ pc = "filter_done"
    /\ no_sort' = Some(FALSE)
    /\ \E requested \in 0..MaxSortThreads :
        /\ sort_parallelism' = Some(requested)
        /\ sort_max_threads' = Max(1, requested)
        /\ sort_threads' = [t \in 1..Max(1, requested) |-> IdleSortThread]
    /\ sort_files' = read_sort_config(filter_configs)
    /\ sort_queue' = <<>>
    /\ sort_sender_open' = TRUE
    /\ pc' = "sort_send"
    /\ dispatched' = Some(disk)
    /\ UNCHANGED <<main_frame, sort_joined>>
    /\ UNCHANGED fn_vars

\* sort_output_files, lines 57-61: the map is sent entry by entry, in the
\* order the HashMap yields them.
SendSortJob ==
    /\ pc = "sort_send"
    /\ Len(sort_queue) < SortQueueCap
    /\ \E path \in DOMAIN sort_files :
        /\ sort_queue' = Append(sort_queue, <<path, sort_files[path]>>)
        /\ sort_files' = [q \in DOMAIN sort_files \ {path} |-> sort_files[q]]
    /\ UNCHANGED <<pc, main_frame, no_sort, sort_parallelism, sort_max_threads,
                   sort_sender_open, sort_threads, sort_joined, dispatched>>
    /\ UNCHANGED fn_vars

\* sort_output_files, line 64.
CloseSortQueue ==
    /\ pc = "sort_send"
    /\ DOMAIN sort_files = {}
    /\ sort_sender_open' = FALSE
    /\ pc' = "sort_join"
    /\ UNCHANGED <<main_frame, no_sort, sort_parallelism, sort_max_threads,
                   sort_files, sort_queue, sort_threads, sort_joined, dispatched>>
    /\ UNCHANGED fn_vars

\* sort_output_files, lines 65-67.
JoinSortThread ==
    /\ pc = "sort_join"
    /\ sort_joined < Len(sort_threads)
    /\ ThreadEnded(sort_threads[sort_joined + 1])
    /\ IF sort_threads[sort_joined + 1].pc = "panicked"
       THEN /\ pc' = "panicked"
            /\ error' = "Cannot join thread."
            /\ UNCHANGED sort_joined
       ELSE /\ sort_joined' = sort_joined + 1
            /\ pc' = IF sort_joined + 1 = Len(sort_threads) THEN "done" ELSE pc
            /\ UNCHANGED error
    /\ UNCHANGED <<config_file, filter_parallelism, filter_vars, no_sort,
                   sort_parallelism, sort_max_threads, sort_files, sort_queue,
                   sort_sender_open, sort_threads, dispatched>>
    /\ UNCHANGED fn_vars

sort_thread_frame ==
    <<pc, error, config_file, filter_parallelism, filter_configs, output_files,
      lock, input_header, input_rows, headers_map, pending_record, queue,
      sender_open, threads, joined, no_sort, sort_parallelism,
      sort_max_threads, sort_files, sort_sender_open, sort_joined, dispatched>>

\* A receiver that leaves the job it yields in the channel.
SortRecvPeek(t) ==
    /\ ProcessAlive
    /\ sort_threads[t].pc = "recv"
    /\ sort_queue # <<>>
    /\ LET path == Head(sort_queue)[1]
           sort_columns == Head(sort_queue)[2]
           file == Unwrap(disk[path])
       IN  sort_threads' = [sort_threads EXCEPT ![t] =
                IF ~ IsSome(sort_columns) THEN IdleSortThread
                ELSE IF ~ Readable(file)
                THEN [IdleSortThread EXCEPT !.pc = "panicked"]
                ELSE [pc |-> "create", path |-> path,
                      file |-> sort_csv_file(file, Unwrap(sort_columns))]]
    /\ UNCHANGED <<sort_thread_frame, disk, sort_queue>>
    /\ UNCHANGED fn_vars

\* sort_output_files, lines 46-50, and sort_csv_file, lines 112-120: a job
\* is received; with sort columns, the file is read and its records sorted.
SortRecv(t) ==
    /\ ProcessAlive
    /\ sort_threads[t].pc = "recv"
    /\ sort_queue # <<>>
    /\ LET path == Head(sort_queue)[1]
           sort_columns == Head(sort_queue)[2]
           file == Unwrap(disk[path])
       IN  sort_threads' = [sort_threads EXCEPT ![t] =
                IF ~ IsSome(sort_columns) THEN IdleSortThread
                ELSE IF ~ Readable(file)
                THEN [IdleSortThread EXCEPT !.pc = "panicked"]
                ELSE [pc |-> "create", path |-> path,
                      file |-> sort_csv_file(file, Unwrap(sort_columns))]]
    /\ sort_queue' = Tail(sort_queue)
    /\ UNCHANGED <<sort_thread_frame, disk>>
    /\ UNCHANGED fn_vars

\* sort_csv_file, line 122: the writer creates the file anew, empty.
SortCreate(t) ==
    /\ ProcessAlive
    /\ sort_threads[t].pc = "create"
    /\ disk' = [disk EXCEPT ![sort_threads[t].path] = Some(<<>>)]
    /\ sort_threads' = [sort_threads EXCEPT ![t].pc = "write"]
    /\ UNCHANGED <<sort_thread_frame, sort_queue>>
    /\ UNCHANGED fn_vars

\* sort_csv_file, lines 123-131: the header and the sorted records are
\* written, and reach the file when the writer is dropped.
SortWrite(t) ==
    /\ ProcessAlive
    /\ sort_threads[t].pc = "write"
    /\ disk' = [disk EXCEPT ![sort_threads[t].path] = Some(sort_threads[t].file)]
    /\ sort_threads' = [sort_threads EXCEPT ![t] = IdleSortThread]
    /\ UNCHANGED <<sort_thread_frame, sort_queue>>
    /\ UNCHANGED fn_vars

SortExit(t) ==
    /\ ProcessAlive
    /\ sort_threads[t].pc = "recv"
    /\ sort_queue = <<>>
    /\ ~ sort_sender_open
    /\ sort_threads' = [sort_threads EXCEPT ![t].pc = "exited"]
    /\ UNCHANGED <<sort_thread_frame, disk, sort_queue>>
    /\ UNCHANGED fn_vars

(***************************************************************************)
(* Specification SpecMatch: record_matches_filter_config applied to every  *)
(* record, configuration and header of the bounded sets below.             *)
(***************************************************************************)
MatchValueSets ==
    {{<<1>>, <<1, 2>>}}

MatchColumnFilters ==
    {ColumnFilter(c, c = ColA, v, mn, mx) :
        c \in {ColA, ColB}, v \in Opt(MatchValueSets),
        mn \in Opt({<<1, 2>>}), mx \in Opt({<<2>>})}

MatchHeaders ==
    {<<ColA>>, <<ColB, ColA>>}

InitMatch ==
    /\ BeforeRun(<<>>, 0)
    /\ \E f \in SeqsUpTo(MatchColumnFilters, MaxFilters), h \in MatchHeaders :
         \E r \in [1..Len(h) -> Str] :
            fin = [csv_record |-> r, config |-> FilterConfig(f, "f1", None),
                   hdr |-> h]
    /\ fout = None

ApplyMatch ==
    /\ fout = None
    /\ fout' = Some(record_matches_filter_config(
                        fin.csv_record, fin.config, create_headers_map(fin.hdr)))
    /\ UNCHANGED <<fin, pc, error, config_file, filter_parallelism,
                   filter_vars, sort_vars>>

(***************************************************************************)
(* Specification SpecProject: build_output_record applied to every record, *)
(* configuration and header of the bounded sets below.                     *)
(***************************************************************************)
ProjectColumnFilters ==
    {ColumnFilter(c, i, None, None, None) : c \in {ColA, ColB}, i \in BOOLEAN}

ProjectHeaders ==
    {<<ColB>>, <<ColA, ColB>>, <<ColB, ColA>>, <<ColA, ColA>>}

InitProject ==
    /\ BeforeRun(<<>>, 0)
    /\ \E f \in SeqsUpTo(ProjectColumnFilters, MaxFilters), h \in ProjectHeaders :
         \E r \in [1..Len(h) -> Str] :
            fin = [csv_record |-> r, config |-> FilterConfig(f, "f1", None),
                   hdr |-> h]
    /\ fout = None

ApplyProject ==
    /\ fout = None
    /\ fout' = Some(build_output_record(
                        fin.csv_record, fin.config, create_headers_map(fin.hdr)))
    /\ UNCHANGED <<fin, pc, error, config_file, filter_parallelism,
                   filter_vars, sort_vars>>

(***************************************************************************)
(* Specification SpecValidate: validate_config applied to every            *)
(* configuration of the bounded set below.                                 *)
(***************************************************************************)
ValidateColumnFilters ==
    {ColumnFilter(c, i, v, r[1], r[2]) :
        c \in {ColA, ColB}, i \in BOOLEAN, v \in Opt({{<<1>>}}),
        r \in {<<None, None>>, <<Some(<<1>>), None>>, <<None, Some(<<2>>)>>}}

InitValidate ==
    /\ BeforeRun(<<>>, 0)
    /\ \E f \in SeqsUpTo(ValidateColumnFilters, MaxFilters),
          o \in {"f1", "f2"},
          sc \in Opt(SeqsUpTo({ColA, ColB}, MaxSortCols)) :
            fin = FilterConfig(f, o, sc)
    /\ fout = None

ApplyValidate ==
    /\ fout = None
    /\ fout' = Some(validate_config(fin))
    /\ UNCHANGED <<fin, pc, error, config_file, filter_parallelism,
                   filter_vars, sort_vars>>

(***************************************************************************)
(* Specification SpecSort: sort_csv_file applied to every file and list of *)
(* sort columns of the bounded sets below.                                 *)
(***************************************************************************)
SortValues ==
    {<<1>>, <<1, 2>>, <<2>>}

SortHeaders ==
    {<<ColA, ColB>>, <<ColB, ColA>>}

InitSort ==
    /\ BeforeRun(<<>>, 0)
    /\ \E h \in SortHeaders,
          r \in SeqsUpTo([1..2 -> SortValues], MaxRecords),
          sc \in SeqsUpTo({ColA, ColB}, MaxSortCols) :
            fin = [file |-> <<h>> \o r, sort_columns |-> sc]
    /\ fout = None

ApplySort ==
    /\ fout = None
    /\ fout' = Some(sort_csv_file(fin.file, fin.sort_columns))
    /\ UNCHANGED <<fin, pc, error, config_file, filter_parallelism,
                   filter_vars, sort_vars>>

vars ==
    <<pc, error, config_file, filter_parallelism, filter_vars, sort_vars, fn_vars>>

Next ==
    \/ ReadFilterConfigs
    \/ CreateOutputFiles
    \/ WriteHeaders
    \/ OpenInput
    \/ SpawnThreads
    \/ ReadRecord
    \/ SendRecord
    \/ JoinThread
    \/ \E t \in DOMAIN threads :
        \/ Recv(t)
        \/ Exit(t)
        \/ FilterRecord(t)
        \/ LockWriter(t)
        \/ WriteRecord(t)
    \/ SkipSort
    \/ StartSort
    \/ SendSortJob
    \/ CloseSortQueue
    \/ JoinSortThread
    \/ \E t \in DOMAIN sort_threads :
        \/ SortRecv(t)
        \/ SortCreate(t)
        \/ SortWrite(t)
        \/ SortExit(t)

Spec ==
    Init /\ [][Next]_vars

\* The scheduler runs a thread that can take a step: some step of the
\* program is taken as long as one is possible.
SpecFair ==
    Spec /\ WF_vars(Next)

SpecMatch ==
    InitMatch /\ [][ApplyMatch]_vars

SpecProject ==
    InitProject /\ [][ApplyProject]_vars

SpecValidate ==
    InitValidate /\ [][ApplyValidate]_vars

SpecSort ==
    InitSort /\ [][ApplySort]_vars

(***************************************************************************)
(* Properties.                                                             *)
(***************************************************************************)
\* s <= t in lexicographic order: after a common prefix either s ends or
\* the next byte of s is the smaller one.
LexLeq(s, t) ==
    \E k \in 0..Min(Len(s), Len(t)) :
        /\ \A i \in 1..k : s[i] = t[i]
        /\ \/ k = Len(s)
           \/ k < Len(t) /\ s[k + 1] < t[k + 1]

\* The position (from 1) the Header Index gives a column name: its last
\* occurrence in the header.
HeaderPos(hdr, name) ==
    CHOOSE i \in 1..Len(hdr) :
        hdr[i] = name /\ \A j \in (i + 1)..Len(hdr) : hdr[j] # name

\* What one ColumnRule requires of a record, when its column is present.
RuleAdmits(cf, v) ==
    /\ IsSome(cf.values) => v \in Unwrap(cf.values)
    /\ IsSome(cf.min) => LexLeq(Unwrap(cf.min), v)
    /\ IsSome(cf.max) => LexLeq(v, Unwrap(cf.max))

Admitted(rec, filters, hdr) ==
    \A i \in 1..Len(filters) :
        filters[i].column \in Range(hdr)
            => RuleAdmits(filters[i], rec[HeaderPos(hdr, filters[i].column)])

\* C2: matches(row, rule, headerIndex) is true if and only if every
\* ColumnRule whose column is in the Header Index is satisfied by the row's
\* field at that index: membership in the value-set, field >= min and
\* field <= max in lexicographic string order, both bounds inclusive.
C2_MatchesIffAdmitted ==
    IsSome(fout) =>
        (Unwrap(fout) <=> Admitted(fin.csv_record, fin.config.filters, fin.hdr))

\* A record admitted with a field equal to min and another field that is
\* below max as a string although longer ("12" <= "2").
C2_Witness ==
    /\ fout = Some(TRUE)
    /\ fin.hdr = <<ColB, ColA>>
    /\ fin.csv_record = << <<1, 2>>, <<1, 2>> >>
    /\ Len(fin.config.filters) = 2
    /\ fin.config.filters[1] = ColumnFilter(ColA, TRUE, None, Some(<<1, 2>>), None)
    /\ fin.config.filters[2] = ColumnFilter(ColB, FALSE, None, None, Some(<<2>>))

WithoutConstraints(config, i) ==
    [config EXCEPT !.filters[i].values = None,
                   !.filters[i].min = None,
                   !.filters[i].max = None]

WithoutFilter(config, i) ==
    [config EXCEPT !.filters =
        SubSeq(config.filters, 1, i - 1)
            \o SubSeq(config.filters, i + 1, Len(config.filters))]

\* C3: a ColumnRule whose column is absent from the Header Index never
\* rejects a row: the result is the one the rule gives with that
\* ColumnRule's constraints removed, and with the ColumnRule left out.
C3_AbsentColumnSkipped ==
    IsSome(fout) =>
        \A i \in 1..Len(fin.config.filters) :
            fin.config.filters[i].column \notin Range(fin.hdr) =>
                LET h == create_headers_map(fin.hdr)
                IN  /\ Unwrap(fout) = record_matches_filter_config(
                            fin.csv_record, WithoutConstraints(fin.config, i), h)
                    /\ Unwrap(fout) = record_matches_filter_config(
                            fin.csv_record, WithoutFilter(fin.config, i), h)

\* A record admitted although a ColumnRule on the absent column b has a
\* value-set and a minimum.
C3_Witness ==
    /\ fout = Some(TRUE)
    /\ fin.hdr = <<ColA>>
    /\ \E i \in 1..Len(fin.config.filters) :
        /\ fin.config.filters[i].column = ColB
        /\ IsSome(fin.config.filters[i].values)
        /\ IsSome(fin.config.filters[i].min)
    /\ \E i \in 1..Len(fin.config.filters) :
        /\ fin.config.filters[i].column = ColA
        /\ IsSome(fin.config.filters[i].min)

\* The indices of the ColumnRules with include = true, and the k-th of them.
IncludedIdx(filters) ==
    {i \in 1..Len(filters) : filters[i].include}

KthIncluded(filters, k) ==
    CHOOSE i \in IncludedIdx(filters) :
        Cardinality({j \in IncludedIdx(filters) : j <= i}) = k

AllIncludedPresent(filters, hdr) ==
    \A i \in IncludedIdx(filters) : filters[i].column \in Range(hdr)

\* The projection of a record as the specification states it.
Projection(rec, filters, hdr) ==
    [k \in 1..Cardinality(IncludedIdx(filters)) |->
        rec[HeaderPos(hdr, filters[KthIncluded(filters, k)].column)]]

HasDistinctNames(hdr) ==
    \A i, j \in 1..Len(hdr) : hdr[i] = hdr[j] => i = j

\* C4: project(row, rule, headerIndex) yields one field per ColumnRule with
\* include = true, in rule-declaration order, each the row's value at the
\* column's Header Index position; columns with include = false never
\* appear, and reordering the columns of the input (header and row alike)
\* leaves the result unchanged.
C4_ProjectionByRuleOrder ==
    IsSome(fout) =>
        LET filters == fin.config.filters
            out == Unwrap(fout)
        IN  /\ AllIncludedPresent(filters, fin.hdr) => out.ok
            /\ out.ok =>
                /\ Len(out.vec) = Cardinality(IncludedIdx(filters))
                /\ out.vec = Projection(fin.csv_record, filters, fin.hdr)
            /\ HasDistinctNames(fin.hdr) =>
                \A p \in Permutations(1..Len(fin.hdr)) :
                    build_output_record(
                        [j \in 1..Len(fin.hdr) |-> fin.csv_record[p[j]]],
                        fin.config,
                        create_headers_map([j \in 1..Len(fin.hdr) |-> fin.hdr[p[j]]]))
                      = out

\* The rule declares b (included), a (not included), the input has the
\* columns in the order a, b: the projection is the b value alone.
C4_Witness ==
    /\ IsSome(fout)
    /\ Unwrap(fout).ok
    /\ fin.hdr = <<ColA, ColB>>
    /\ fin.config.filters = << ColumnFilter(ColB, TRUE, None, None, None),
                              ColumnFilter(ColA, FALSE, None, None, None) >>
    /\ fin.csv_record = << <<1>>, <<2>> >>
    /\ Unwrap(fout).vec = << <<2>> >>

\* The three conditions of rule-set validation, as the specification states them.
HasIncludedColumn(config) ==
    \E i \in 1..Len(config.filters) : config.filters[i].include

NoValuesWithRange(config) ==
    \A i \in 1..Len(config.filters) :
        ~ (/\ IsSome(config.filters[i].values)
           /\ (IsSome(config.filters[i].min) \/ IsSome(config.filters[i].max)))

IncludedNames(config) ==
    {config.filters[i].column : i \in IncludedIdx(config.filters)}

SortColumnsIncluded(config) ==
    IsSome(config.sort_columns) =>
        Range(Unwrap(config.sort_columns)) \subseteq IncludedNames(config)

ValidRule(config) ==
    /\ HasIncludedColumn(config)
    /\ NoValuesWithRange(config)
    /\ SortColumnsIncluded(config)

\* C6: validation accepts a rule if and only if (a) at least one ColumnRule
\* is included, (b) no ColumnRule has a value-set together with a min or a
\* max and (c) every sort column is the name of an included ColumnRule; a
\* rejection reports the rule's output identifier and, when it is for (c),
\* a sort column that is not included.
C6_ValidationAcceptsIff ==
    IsSome(fout) =>
        LET res == Unwrap(fout)
        IN  /\ res.ok <=> ValidRule(fin)
            /\ ~ res.ok => res.output = fin.output
            /\ ~ HasIncludedColumn(fin) => res.kind = "no_output_columns"
            /\ res.kind = "values_and_range" => ~ NoValuesWithRange(fin)
            /\ (~ res.ok /\ HasIncludedColumn(fin) /\ NoValuesWithRange(fin)) =>
                /\ res.kind = "sort_column"
                /\ res.column \in Range(Unwrap(fin.sort_columns))
                /\ res.column \notin IncludedNames(fin)

\* A rule that includes a, filters b without including it and sorts by
\* a then b is rejected for the sort column b.
C6_Witness ==
    /\ fout = Some(ValidationError("sort_column", "f2", ColB))
    /\ fin.sort_columns = Some(<<ColA, ColB>>)
    /\ Len(fin.filters) = 2
    /\ fin.filters[1].column = ColA /\ fin.filters[1].include
    /\ fin.filters[2].column = ColB /\ ~ fin.filters[2].include

\* (r[k1], ..., r[kn]) <= (s[k1], ..., s[kn]) for the sort columns resolved
\* in the header hdr: the keys agree up to some j, and either all of them
\* do or the next key of r is the smaller string.
KeysLeq(r, s, hdr, sort_columns) ==
    \E j \in 0..Len(sort_columns) :
        /\ \A i \in 1..j :
            r[HeaderPos(hdr, sort_columns[i])] = s[HeaderPos(hdr, sort_columns[i])]
        /\ \/ j = Len(sort_columns)
           \/ LET q == HeaderPos(hdr, sort_columns[j + 1])
              IN  r[q] # s[q] /\ LexLeq(r[q], s[q])

SortedBy(file, sort_columns) ==
    \A i \in 2..(Len(file) - 1) :
        KeysLeq(file[i], file[i + 1], file[1], sort_columns)

\* C10: after the sort of a file by the sort columns [k1, ..., kn], each
\* resolved to its position in the file's own header, every adjacent pair
\* of data rows (r, s) satisfies (r[k1], ..., r[kn]) <= (s[k1], ..., s[kn])
\* in lexicographic multi-key order with byte-wise comparison per key.
C10_SortedByKeys ==
    IsSome(fout) => SortedBy(Unwrap(fout), fin.sort_columns)

\* Three rows in descending order of (b, a), sorted by b then a, in a file
\* whose header is a, b: the first key ties for two of the rows and the
\* second key orders them.
C10_Witness ==
    /\ IsSome(fout)
    /\ fin.sort_columns = <<ColB, ColA>>
    /\ fin.file = << <<ColA, ColB>>,
                    << <<2>>, <<1, 2>> >>,
                    << <<1>>, <<1, 2>> >>,
                    << <<2>>, <<1>> >> >>
    /\ Unwrap(fout) = << <<ColA, ColB>>,
                        << <<2>>, <<1>> >>,
                        << <<1>>, <<1, 2>> >>,
                        << <<2>>, <<1, 2>> >> >>

Count(seq, x) ==
    Cardinality({i \in 1..Len(seq) : seq[i] = x})

\* C11: sorting a file only permutes its data rows: the header row is
\* unchanged and every row occurs after the sort as many times as before.
C11_SortPermutesDataRows ==
    IsSome(fout) =>
        LET before == fin.file
            after == Unwrap(fout)
        IN  /\ Len(after) = Len(before)
            /\ Head(after) = Head(before)
            /\ \A x \in Range(Tail(before)) \cup Range(Tail(after)) :
                    Count(Tail(after), x) = Count(Tail(before), x)

\* A file with the same row twice and a smaller row behind them: the
\* sort moves the smaller row to the front and keeps both copies.
C11_Witness ==
    /\ IsSome(fout)
    /\ fin.sort_columns = <<ColA>>
    /\ fin.file = << <<ColA, ColB>>,
                    << <<2>>, <<1>> >>,
                    << <<2>>, <<1>> >>,
                    << <<1>>, <<2>> >> >>
    /\ Unwrap(fout) = << <<ColA, ColB>>,
                        << <<1>>, <<2>> >>,
                        << <<2>>, <<1>> >>,
                        << <<2>>, <<1>> >> >>

\* r and s are equal on every sort column, resolved in the header hdr.
KeysEqual(r, s, hdr, sort_columns) ==
    \A k \in 1..Len(sort_columns) :
        \A q \in 1..Len(hdr) :
            hdr[q] = sort_columns[k] => r[q] = s[q]

\* The rows of seq that are equal to r on the sort columns, in order.
Ties(seq, r, hdr, sort_columns) ==
    SelectSeq(seq, LAMBDA s : KeysEqual(r, s, hdr, sort_columns))

\* C12: the sort is stable: the data rows that are equal on every declared
\* sort column are, after the sort, in the relative order they had in the
\* file before it.
C12_SortIsStable ==
    IsSome(fout) =>
        \A r \in Range(Tail(fin.file)) :
            Ties(Tail(Unwrap(fout)), r, Head(fin.file), fin.sort_columns)
                = Ties(Tail(fin.file), r, Head(fin.file), fin.sort_columns)

\* Two rows tie on the sort column b and stand in descending order of a;
\* a row with a smaller b stands behind them.  The sort moves that row to
\* the front and leaves the two in their order.
C12_Witness ==
    /\ IsSome(fout)
    /\ fin.sort_columns = <<ColB>>
    /\ fin.file = << <<ColA, ColB>>,
                    << <<2>>, <<2>> >>,
                    << <<1>>, <<2>> >>,
                    << <<2>>, <<1>> >> >>
    /\ Unwrap(fout) = << <<ColA, ColB>>,
                        << <<2>>, <<1>> >>,
                        << <<2>>, <<2>> >>,
                        << <<1>>, <<2>> >> >>

\* C13: the sort is idempotent: sorting the sorted file by the same sort
\* columns leaves header and data rows as they are, sort(sort(f)) = sort(f).
C13_SortIsIdempotent ==
    IsSome(fout) =>
        sort_csv_file(Unwrap(fout), fin.sort_columns) = Unwrap(fout)

\* A file out of order with a tie on the sort column a: the first sort
\* changes it, and the rows that tie differ in b.
C13_Witness ==
    /\ IsSome(fout)
    /\ fin.sort_columns = <<ColA>>
    /\ fin.file = << <<ColB, ColA>>,
                    << <<1>>, <<2>> >>,
                    << <<2>>, <<1>> >>,
                    << <<1>>, <<1>> >> >>
    /\ Unwrap(fout) # fin.file
    /\ Unwrap(fout) = << <<ColB, ColA>>,
                        << <<2>>, <<1>> >>,
                        << <<1>>, <<1>> >>,
                        << <<1>>, <<2>> >> >>

(***************************************************************************)
(* Properties of the run.                                                  *)
(***************************************************************************)
RuleHeader(filters) ==
    [k \in 1..Cardinality(IncludedIdx(filters)) |->
        filters[KthIncluded(filters, k)].column]

DistinctOutputs(cfgs) ==
    \A i, j \in 1..Len(cfgs) : cfgs[i].output = cfgs[j].output => i = j

Occurrences(seq, x) ==
    Cardinality({i \in 1..Len(seq) : seq[i] = x})

\* The number of input rows the rule admits and projects to x.
Expected(cfg, x) ==
    Cardinality({i \in 1..Len(input_rows) :
        /\ Admitted(input_rows[i], cfg.filters, input_header)
        /\ Projection(input_rows[i], cfg.filters, input_header) = x})

ExpectedRows(cfg) ==
    {Projection(input_rows[i], cfg.filters, input_header) :
        i \in {k \in 1..Len(input_rows) :
                Admitted(input_rows[k], cfg.filters, input_header)}}

DataRows(output) ==
    Tail(Unwrap(disk[output]))

\* C1: when a run ends without error, the output identifiers are pairwise
\* distinct and every included column is in the input header, each rule's
\* output file holds, after its header, exactly the multiset of the
\* projections of the input rows the rule matches, whatever the number of
\* workers and the interleaving.
C1_OutputIsProjectionOfMatches ==
    (/\ pc = "done"
     /\ DistinctOutputs(config_file)
     /\ \A i \in 1..Len(config_file) :
            AllIncludedPresent(config_file[i].filters, input_header))
    => \A i \in 1..Len(config_file) :
            LET cfg == config_file[i]
            IN  /\ IsSome(disk[cfg.output])
                /\ Len(Unwrap(disk[cfg.output])) >= 1
                /\ \A x \in Range(DataRows(cfg.output)) \cup ExpectedRows(cfg) :
                        Occurrences(DataRows(cfg.output), x) = Expected(cfg, x)

\* Two workers and two rows: the row a = "1", b = "2" matches both rules
\* and is in both files, b first in f1 and a alone in f2; the row a = "2",
\* b = "1" matches no rule and is in no file.
C1_Witness ==
    /\ pc = "done"
    /\ Len(threads) = 2
    /\ config_file = <<RuleValues, RuleRange>>
    /\ input_header = <<ColB, ColA>>
    /\ input_rows = << << <<2>>, <<1>> >>, << <<1>>, <<2>> >> >>
    /\ disk["f1"] = Some(<< <<ColB, ColA>>, << <<2>>, <<1>> >> >>)
    /\ disk["f2"] = Some(<< <<ColA>>, << <<1>> >> >>)

\* C5: a row that matches a rule with an included column absent from the
\* Header Index is not projected but fails with a SchemaError, so that
\* every output row a worker holds is the full projection; a worker fails
\* with a SchemaError only on a row that matches, and the file of such a
\* rule never receives a data row.
C5_SchemaErrorOnMatchOnly ==
    /\ \A t \in DOMAIN threads :
        LET thread == threads[t]
        IN  thread.i > 0 =>
            LET rec == Unwrap(thread.csv_record)
                filters == filter_configs[thread.i].filters
            IN  /\ thread.pc \in {"lock", "write"} =>
                    /\ Admitted(rec, filters, input_header)
                    /\ AllIncludedPresent(filters, input_header)
                    /\ thread.output_record =
                            Some(Projection(rec, filters, input_header))
                /\ (thread.pc = "panicked"
                        /\ thread.error = "Cannot find index of header") =>
                    /\ Admitted(rec, filters, input_header)
                    /\ ~ AllIncludedPresent(filters, input_header)
                /\ \A j \in 1..(thread.i - 1) :
                    Admitted(rec, filter_configs[j].filters, input_header)
                        => AllIncludedPresent(filter_configs[j].filters,
                                              input_header)
    /\ \A i \in 1..Len(filter_configs) :
        LET cfg == filter_configs[i]
        IN  (/\ threads # <<>>
             /\ DistinctOutputs(filter_configs)
             /\ ~ AllIncludedPresent(cfg.filters, input_header))
            => /\ Len(Unwrap(disk[cfg.output])) <= 1
               /\ cfg.output \in DOMAIN output_files
                    => output_files[cfg.output].buf = <<>>

\* The input has the column a alone.  The row a = "2" does not match the
\* rule that includes b and passes without an error; the row a = "1"
\* matches it and the only worker fails on it, after the other rule wrote
\* both rows to f2.
C5_Witness ==
    /\ pc = "panicked"
    /\ error = "Cannot join thread."
    /\ config_file = <<RuleValues, RuleRange>>
    /\ input_header = <<ColA>>
    /\ input_rows = << << <<2>> >>, << <<1>> >> >>
    /\ Len(threads) = 1
    /\ threads[1].pc = "panicked"
    /\ threads[1].error = "Cannot find index of header"
    /\ threads[1].csv_record = Some(<< <<1>> >>)
    /\ disk["f1"] = Some(<< <<ColB, ColA>> >>)
    /\ disk["f2"] = Some(<< <<ColA>>, << <<2>> >>, << <<1>> >> >>)

\* C7: when a rule of the configuration fails validation, the run aborts
\* before the input file is opened, an output file created or a worker
\* started: no step of the filter stage or the sort stage is ever taken.
C7_ValidationFailureAbortsFirst ==
    (\E i \in 1..Len(config_file) : ~ ValidRule(config_file[i]))
    => /\ pc \in {"read_filter_configs", "panicked"}
       /\ pc = "panicked" => error = "Invalid configuration"
       /\ \A o \in OutIds : disk[o] = None
       /\ output_files = EmptyMap
       /\ input_header = <<>> /\ input_rows = <<>>
       /\ threads = <<>> /\ sort_threads = <<>>
       /\ no_sort = None

\* The second rule of the configuration has no included column; the first
\* is valid and names the file f1, which does not exist.
C7_Witness ==
    /\ pc = "panicked"
    /\ error = "Invalid configuration"
    /\ config_file = <<RuleValues, RuleNoOutput>>
    /\ disk["f1"] = None

HeadersWritten ==
    pc \in {"open_input", "spawn_threads", "read_record", "send", "join",
            "filter_done", "sort_send", "sort_join", "done"}

\* C8: once the headers are written, for every rule the first record of
\* its output file is the rule's included column names in declared order;
\* the header is written once, before a worker is started or a data row
\* appended, and stays the first record through dispatch and sort.
C8_HeaderIsFirstRecord ==
    HeadersWritten =>
        \A i \in 1..Len(config_file) :
            LET file == Unwrap(disk[config_file[i].output])
            IN  /\ Len(file) >= 1
                /\ file[1] = RuleHeader(config_file[i].filters)
                /\ pc = "open_input" => Len(file) = 1

\* C9: when two rules declare the same output identifier, the Routing
\* Table has one writer for it, the header of the file is the header of
\* the rule declared last, and the header of the earlier rule is not
\* written into the file.
C9_LastRuleOwnsFile ==
    HeadersWritten =>
        \A i, j \in 1..Len(config_file) :
            (i < j /\ config_file[i].output = config_file[j].output
                /\ \A k \in (j + 1)..Len(config_file) :
                        config_file[k].output # config_file[j].output)
            => LET file == Unwrap(disk[config_file[j].output])
               IN  /\ output_files # EmptyMap
                        => config_file[j].output \in DOMAIN output_files
                   /\ Len(file) >= 1
                   /\ file[1] = RuleHeader(config_file[j].filters)
                   /\ pc = "open_input" => Len(file) = 1

\* The sort stage was entered: process is past the return of filter and
\* read no_sort as false.
SortStageEntered ==
    \/ pc \in {"sort_send", "sort_join"}
    \/ sort_threads # <<>>
    \/ no_sort = Some(FALSE)

FilterThreadsGone ==
    /\ joined = Len(threads)
    /\ \A t \in DOMAIN threads : threads[t].pc = "exited"

\* C14: phase barrier: whenever the sort stage is entered, and so whenever
\* a sort thread exists, receives a job or reads a file, every filter
\* thread has exited and been joined, the record channel is closed and
\* empty, and no writer of the filter stage exists any more (all were
\* dropped, which flushes them) or holds a lock.
C14_PhaseBarrier ==
    SortStageEntered =>
        /\ FilterThreadsGone
        /\ ~ sender_open /\ queue = <<>> /\ pending_record = None
        /\ output_files = EmptyMap
        /\ \A o \in OutIds : lock[o] = 0

\* A sort thread has read f2 and is about to rewrite it, after two filter
\* threads wrote the rows of a three-row input.
C14_Witness ==
    /\ Len(threads) = 2
    /\ Len(input_rows) = 3
    /\ \E t \in DOMAIN sort_threads :
        /\ sort_threads[t].pc = "create"
        /\ sort_threads[t].path = "f2"
        /\ Len(sort_threads[t].file) = 3
    /\ Len(Unwrap(disk["f2"])) = 3

\* The dispatcher is Done: filter has returned.
DispatcherDone ==
    pc \in {"filter_done", "sort_send", "sort_join", "done"} \/ IsSome(no_sort)

\* The number of rows the rules that write to output admit.
AdmittedCount(output) ==
    Cardinality({ik \in (1..Len(filter_configs)) \X (1..Len(input_rows)) :
        /\ filter_configs[ik[1]].output = output
        /\ Admitted(input_rows[ik[2]], filter_configs[ik[1]].filters,
                    input_header)})

HeaderCount(output) ==
    Cardinality({i \in 1..Len(filter_configs) :
                    filter_configs[i].output = output})

\* C15: the dispatcher is Done only after the sender is dropped and every
\* worker has exited and been joined; a worker that exited found the
\* channel closed and empty; so in Done the channel is empty and every row
\* the reader sent is fully processed: each output file holds, besides the
\* headers, one row for every input row and rule that matches it.
C15_DoneAfterDrain ==
    /\ DispatcherDone =>
        /\ ~ sender_open /\ queue = <<>> /\ pending_record = None
        /\ FilterThreadsGone
    /\ \A t \in DOMAIN threads :
        threads[t].pc = "exited" => ~ sender_open /\ queue = <<>>
    /\ pc = "filter_done" =>
        \A o \in {filter_configs[i].output : i \in 1..Len(filter_configs)} :
            Len(Unwrap(disk[o])) = HeaderCount(o) + AdmittedCount(o)

\* Filter has returned after two workers processed three rows, two of
\* which match the two rules of the configuration.
C15_Witness ==
    /\ pc = "filter_done"
    /\ Len(threads) = 2
    /\ config_file = <<RuleValues, RuleRange>>
    /\ input_rows = << << <<2>>, <<1>> >>, << <<1>>, <<2>> >>, << <<2>>, <<1>> >> >>
    /\ Len(Unwrap(disk["f1"])) = 3
    /\ Len(Unwrap(disk["f2"])) = 3

\* No worker can fail: every rule finds its included columns in the
\* header of the input (the headers are written, so no write fails).
WorkerFailed ==
    \E t \in DOMAIN threads : threads[t].pc = "panicked"

NoErrorAhead ==
    /\ pc = "spawn_threads"
    /\ \A i \in 1..Len(filter_configs) :
        AllIncludedPresent(filter_configs[i].filters, input_header)

SortJobsDone ==
    /\ pc = "done"
    /\ no_sort = Some(FALSE) =>
        /\ DOMAIN sort_files = {} /\ sort_queue = <<>>
        /\ \A t \in DOMAIN sort_threads : sort_threads[t].pc = "exited"

\* C16: termination without errors: under fair scheduling, a run whose
\* rules all find their included columns and in which no write fails
\* reaches Done from the spawning of the workers, whatever the input and
\* the number of workers, and from Done the sort stage completes every
\* sort job.
C16_TerminatesWithoutErrors ==
    /\ NoErrorAhead ~> (pc = "filter_done" \/ WorkerFailed)
    /\ pc = "filter_done" ~> SortJobsDone

\* The reader is blocked on the full channel while the only worker holds
\* a record, in a run in which no worker can fail.
C16_Witness ==
    /\ pc = "send"
    /\ Len(queue) = QueueCap
    /\ Len(threads) = 1
    /\ threads[1].pc = "write"
    /\ \A i \in 1..Len(filter_configs) :
        AllIncludedPresent(filter_configs[i].filters, input_header)

\* C17: a fatal error in a worker aborts the whole run: the run never
\* reaches Done or the sort stage, and under fair scheduling it ends
\* aborted, whatever the number of workers and the length of the input; it
\* does not hang with the reader blocked on the channel.
C17_WorkerErrorAbortsRun ==
    /\ [](WorkerFailed => ~ DispatcherDone)
    /\ WorkerFailed ~> pc = "panicked"

\* The rows written to an output file o or buffered for it.
RowsAppended(d, of, o) ==
    (IF IsSome(d[o]) THEN Len(Unwrap(d[o])) ELSE 0)
        + (IF o \in DOMAIN of THEN Len(of[o].buf) ELSE 0)

\* C18: abort is immediate: once a worker has failed, no further row is
\* read from the input or sent to the channel, and no worker appends a
\* further row to an output file.
C18_AbortIsImmediate ==
    [][WorkerFailed =>
        /\ input_rows' = input_rows
        /\ Len(queue') <= Len(queue)
        /\ \A o \in OutIds :
            RowsAppended(disk', output_files', o)
                <= RowsAppended(disk, output_files, o)]_vars

AtLeastOne(requested) ==
    IF requested = 0 THEN 1 ELSE requested

ThreadsSpawned ==
    pc \in {"read_record", "send", "join"} \/ DispatcherDone

HasOwnFile(i) ==
    \A j \in 1..Len(config_file) :
        config_file[j].output = config_file[i].output => j = i

\* C19: the filter stage runs max(1, requested filter parallelism) workers
\* and the sort stage max(1, requested sort parallelism): one worker for a
\* request of 0, so each channel has a consumer, and the run with
\* parallelism (0, 0) that ends has processed every row and every sort job.
C19_AtLeastOneWorker ==
    /\ ThreadsSpawned =>
        /\ Len(threads) = AtLeastOne(filter_parallelism)
        /\ Len(threads) >= 1
    /\ IsSome(sort_parallelism) =>
        /\ Len(sort_threads) = AtLeastOne(Unwrap(sort_parallelism))
        /\ sort_max_threads = Len(sort_threads)
        /\ Len(sort_threads) >= 1
    /\ (pc = "done" /\ filter_parallelism = 0) =>
        /\ \A o \in {filter_configs[i].output : i \in 1..Len(filter_configs)} :
            Len(Unwrap(disk[o])) = HeaderCount(o) + AdmittedCount(o)
        /\ sort_parallelism = Some(0) =>
            /\ SortJobsDone
            /\ \A i \in 1..Len(config_file) :
                (HasOwnFile(i) /\ IsSome(config_file[i].sort_columns)) =>
                    SortedBy(Unwrap(disk[config_file[i].output]),
                             Unwrap(config_file[i].sort_columns))

\* The run with parallelism (0, 0) has ended: its one filter worker wrote
\* the three rows that match RuleRange to f2 and its one sort worker put
\* them in order.
C19_Witness ==
    /\ pc = "done"
    /\ filter_parallelism = 0
    /\ sort_parallelism = Some(0)
    /\ Len(threads) = 1
    /\ Len(sort_threads) = 1
    /\ config_file = <<RuleValues, RuleRange>>
    /\ input_header = <<ColB, ColA>>
    /\ input_rows = << << <<2>>, <<1>> >>, << <<1>>, <<2>> >>, << <<2>>, <<1>> >> >>
    /\ disk["f2"] = Some(<< <<ColA>>, << <<1>> >>, << <<1>> >> >>)

NoSortColumns(rule) ==
    \/ rule.sort_columns = None
    \/ rule.sort_columns = Some(<<>>)

\* C20: when the sort stage has ended, the output file of every rule whose
\* sort columns are absent or empty holds the records, header included and
\* in order, that it held when the filter stage ended; and in a run with
\* no_sort set no sort thread exists, no sort job is queued and every
\* output file is as the filter stage left it.
C20_UnsortedFilesUntouched ==
    /\ pc = "done" =>
        \A i \in 1..Len(config_file) :
            NoSortColumns(config_file[i]) =>
                disk[config_file[i].output] =
                    Unwrap(dispatched)[config_file[i].output]
    /\ no_sort = Some(TRUE) =>
        /\ disk = Unwrap(dispatched)
        /\ sort_threads = <<>>
        /\ sort_queue = <<>>

\* The output file the thread t is at.
OutputOf(t) ==
    filter_configs[threads[t].i].output

FilterStageRunning ==
    pc \in {"read_record", "send", "join"}

\* A thread is in the locked block of write_record_to_file exactly when it
\* is the holder of its output file's lock.
LockHeldByWriter ==
    /\ \A t \in DOMAIN threads :
        threads[t].pc = "write" => lock[OutputOf(t)] = t
    /\ \A o \in OutIds :
        lock[o] # 0 =>
            /\ lock[o] \in DOMAIN threads
            /\ threads[lock[o]].pc = "write"
            /\ OutputOf(lock[o]) = o

\* A thread waiting for the lock of a file that no thread holds can take
\* it, whatever locks of other files are held.
NoWaitForOtherFile ==
    \A t \in DOMAIN threads :
        (ProcessAlive /\ threads[t].pc = "lock" /\ lock[OutputOf(t)] = 0)
            => ENABLED LockWriter(t)

\* A step of the filter stage that adds a row to the file o, or to its
\* writer's buffer, adds one whole row, and is the step of the thread that
\* holds the lock of o, which releases the lock.
AppendUnderLock ==
    \A o \in OutIds :
        (FilterStageRunning
            /\ RowsAppended(disk', output_files', o)
                    > RowsAppended(disk, output_files, o))
        => /\ lock[o] # 0
           /\ threads[lock[o]].pc = "write"
           /\ threads'[lock[o]].pc # "write"
           /\ lock'[o] = 0
           /\ RowsAppended(disk', output_files', o)
                    = RowsAppended(disk, output_files, o) + 1
           /\ Unwrap(disk'[o]) \o output_files'[o].buf
                    = Append(Unwrap(disk[o]) \o output_files[o].buf,
                             Unwrap(threads[lock[o]].output_record))

\* C21: per-writer mutual exclusion: at most one worker at a time is in
\* the locked block of an output file's writer, and it is the holder of
\* that file's lock; every row appended during the filter stage is
\* appended whole by the holder of the file's lock; and a worker takes the
\* free lock of its file whatever locks of other files are held.
C21_PerWriterMutualExclusion ==
    /\ [](LockHeldByWriter /\ NoWaitForOtherFile)
    /\ [][AppendUnderLock]_vars

\* Two workers hold the locks of the two output files at the same time.
C21_Witness ==
    /\ Len(threads) = 2
    /\ threads[1].pc = "write" /\ threads[2].pc = "write"
    /\ lock["f1"] # 0 /\ lock["f2"] # 0
    /\ lock["f1"] # lock["f2"]

\* The threads that hold a record they are not done with.
Holding ==
    {t \in DOMAIN threads : IsSome(threads[t].csv_record)}

\* The rows read from the input and not yet fully processed: the row the
\* reader is about to send, the rows in the channel and the rows the
\* threads hold.
InFlight ==
    Len(pending_record) + Len(queue) + Cardinality(Holding)

\* A row is sent only when the channel has room, and while the channel is
\* full the reader stays at its send.
SendWaitsForRoom ==
    /\ Len(queue') > Len(queue) =>
        /\ pc = "send" /\ Len(queue) < QueueCap
        /\ queue' = Append(queue, Unwrap(pending_record))
    /\ (pc = "send" /\ Len(queue) = QueueCap) =>
        /\ pc' = "send"
        /\ input_rows' = input_rows
        /\ pending_record' = pending_record
        /\ Len(queue') <= Len(queue)

\* C22: back-pressure: the channel never holds more rows than its
\* capacity; a row is sent only when the channel has room; while the
\* channel is full the reader stays at its send and reads no further row
\* until a worker has received one; so the rows read but not fully
\* processed are never more than capacity + number of workers + 1.
C22_BackPressure ==
    /\ [](/\ Len(queue) <= QueueCap
          /\ InFlight <= QueueCap + Len(threads) + 1
          /\ InFlight <= Len(input_rows))
    /\ [][SendWaitsForRoom]_vars

\* The reader is blocked with a row on the full channel while every worker
\* holds a row: capacity + number of workers + 1 rows are in flight.
C22_Witness ==
    /\ pc = "send"
    /\ Len(queue) = QueueCap
    /\ Len(threads) >= 1
    /\ InFlight = QueueCap + Len(threads) + 1

\* The rows the reader has sent, and those of them that were received.
Sent ==
    Len(input_rows) - Len(pending_record)

Dequeued ==
    Sent - Len(queue)

\* A step that takes a row off the channel takes the oldest row, the row
\* of the input after the rows received before, and hands it to one thread
\* that was waiting; no other thread changes.
ReceivedByOne ==
    Len(queue') < Len(queue) =>
        /\ queue' = Tail(queue)
        /\ \E t \in DOMAIN threads :
            /\ threads[t].pc = "recv"
            /\ threads'[t].pc = "filter"
            /\ threads'[t].csv_record = Some(input_rows[Dequeued + 1])
            /\ \A u \in DOMAIN threads \ {t} : threads'[u] = threads[u]

\* C23: exactly-once consumption: the channel holds the rows sent and not
\* yet received, in input order; each row is received in one step by one
\* worker only, so no two workers hold the same row; and once the
\* dispatcher is Done every row of the input was sent and received, no
\* worker holds a row, and each output file holds one row for every input
\* row and rule that matches it, no more and no fewer.
C23_ExactlyOnceConsumption ==
    /\ [](/\ Dequeued >= Cardinality(Holding)
          /\ queue = SubSeq(input_rows, Dequeued + 1, Sent)
          /\ DispatcherDone =>
                /\ Dequeued = Len(input_rows)
                /\ Holding = {}
          /\ pc = "filter_done" =>
                \A i \in 1..Len(filter_configs) :
                    Len(Unwrap(disk[filter_configs[i].output]))
                        = HeaderCount(filter_configs[i].output)
                            + AdmittedCount(filter_configs[i].output))
    /\ [][ReceivedByOne]_vars

\* Two workers hold the first two rows of the input, which are equal,
\* while the third is in the channel.
C23_Witness ==
    /\ Len(threads) = 2
    /\ Holding = {1, 2}
    /\ \A t \in Holding : threads[t].pc \in {"filter", "lock", "write"}
    /\ Len(input_rows) = 3
    /\ input_rows[1] = input_rows[2]
    /\ queue = << input_rows[3] >>

\* The rows one thread writes to output from input row r and configuration
\* i on: row after row of the input, and for each row configuration after
\* configuration.
RECURSIVE RowsInInputOrder(_, _, _)
RowsInInputOrder(output, r, i) ==
    IF r > Len(input_rows) THEN <<>>
    ELSE IF i > Len(filter_configs) THEN RowsInInputOrder(output, r + 1, 1)
    ELSE LET cfg == filter_configs[i]
         IN  (IF cfg.output = output
                    /\ Admitted(input_rows[r], cfg.filters, input_header)
              THEN << Projection(input_rows[r], cfg.filters, input_header) >>
              ELSE <<>>)
             \o RowsInInputOrder(output, r, i + 1)

RowsAfterHeaders(output) ==
    SubSeq(Unwrap(disk[output]), HeaderCount(output) + 1,
           Len(Unwrap(disk[output])))

Sorting ==
    {t \in DOMAIN sort_threads : sort_threads[t].pc \in {"create", "write"}}

\* A path is in one place only: still to be sent, in the channel once, or
\* with one sort thread.
OneJobPerPath ==
    /\ \A t, u \in Sorting :
        sort_threads[t].path = sort_threads[u].path => t = u
    /\ \A i, j \in 1..Len(sort_queue) :
        sort_queue[i][1] = sort_queue[j][1] => i = j
    /\ \A i \in 1..Len(sort_queue) :
        /\ sort_queue[i][1] \notin DOMAIN sort_files
        /\ \A t \in Sorting : sort_threads[t].path # sort_queue[i][1]
    /\ \A t \in Sorting : sort_threads[t].path \notin DOMAIN sort_files

\* A job that leaves the channel is the oldest and goes to one sort thread
\* that was waiting; a job that enters the channel is the job of a path
\* that was still to be sent, and no path is ever to be sent again.
JobTakenByOne ==
    /\ Len(sort_queue') < Len(sort_queue) =>
        /\ sort_queue' = Tail(sort_queue)
        /\ \E t \in DOMAIN sort_threads :
            /\ sort_threads[t].pc = "recv"
            /\ sort_threads'[t].pc = "create" =>
                    sort_threads'[t].path = Head(sort_queue)[1]
            /\ \A u \in DOMAIN sort_threads \ {t} :
                    sort_threads'[u] = sort_threads[u]
    /\ (pc = "sort_send" /\ Len(sort_queue') > Len(sort_queue)) =>
        \E path \in DOMAIN sort_files :
            /\ sort_queue' = Append(sort_queue, <<path, sort_files[path]>>)
            /\ DOMAIN sort_files' = DOMAIN sort_files \ {path}
    /\ pc \in {"sort_send", "sort_join"} =>
        DOMAIN sort_files' \subseteq DOMAIN sort_files

\* C25: sort-job exclusivity: a path is sent as one sort job at most, a
\* job is received by one sort thread only, and no two sort threads are
\* in sort_csv_file on the same file at the same time, with one or more
\* sort threads and also when rules share an output file.
C25_SortJobExclusivity ==
    /\ []OneJobPerPath
    /\ [][JobTakenByOne]_vars

\* Two rules share f1 and two sort threads run: one of them rewrites f1,
\* the other finds the channel empty.
C25_Witness ==
    /\ config_file = <<RuleShared, RuleEmptySort>>
    /\ Len(sort_threads) = 2
    /\ Sorting = {1}
    /\ sort_threads[1].path = "f1"
    /\ sort_threads[2].pc \in {"recv", "exited"}
    /\ sort_queue = <<>>
    /\ DOMAIN sort_files = {}

FilesCreated ==
    \E o \in OutIds : IsSome(disk[o])

InputOpened ==
    input_header # <<>>

\* C26: the stages of a run follow one another as the specification states
\* them: no output file is created or truncated before the rules are read
\* and the input file is opened and its header read; no worker runs before
\* the output files exist; the sort stage is entered only after the
\* dispatcher is Done; and a run that fails because the input file cannot
\* be opened has created no output file.
C26_StageOrdering ==
    /\ FilesCreated => (filter_configs # <<>> /\ InputOpened)
    /\ InputOpened => filter_configs # <<>>
    /\ threads # <<>> => (FilesCreated /\ InputOpened)
    /\ SortStageEntered => DispatcherDone
    /\ (pc = "panicked" /\ error = "Cannot read CSV file") => ~ FilesCreated

\* No failed worker holds a lock, a lock that is held is held by a worker
\* in the locked block, and after a failure a worker that waits for a free
\* lock can take it.
LocksFreeOfFailedWorkers ==
    /\ \A t \in DOMAIN threads :
        threads[t].pc = "panicked" => \A o \in OutIds : lock[o] # t
    /\ WorkerFailed =>
        /\ \A o \in OutIds : lock[o] # 0 => threads[lock[o]].pc = "write"
        /\ \A u \in DOMAIN threads :
            (ProcessAlive /\ threads[u].pc = "lock" /\ lock[OutputOf(u)] = 0)
                => ENABLED LockWriter(u)

\* The step in which a worker fails: a projection error comes from a
\* worker that holds no lock and changes no lock; a write error comes from
\* the worker in the locked block, whose lock the step releases.
FailsWithoutLock ==
    \A t \in DOMAIN threads :
        (threads[t].pc # "panicked" /\ threads'[t].pc = "panicked") =>
            /\ \A o \in OutIds : lock'[o] # t
            /\ threads'[t].error = "Cannot find index of header" =>
                /\ threads[t].pc = "filter"
                /\ \A o \in OutIds : lock[o] # t
                /\ lock' = lock
            /\ threads'[t].error = "Error writing to CSV file" =>
                /\ threads[t].pc = "write"
                /\ lock[OutputOf(t)] = t
                /\ lock' = [lock EXCEPT ![OutputOf(t)] = 0]
            /\ threads'[t].error \in {"Cannot find index of header",
                                     "Error writing to CSV file"}

\* C27: a worker never fails while it holds a writer's lock: a projection
\* error is raised before the lock is taken and a write error after it is
\* released, so after any worker failure no lock is held by a failed
\* worker and the other workers still take the locks they wait for.
C27_NoFailureUnderLock ==
    /\ []LocksFreeOfFailedWorkers
    /\ [][FailsWithoutLock]_vars

\* The first worker failed on a write to f1, and the second worker took
\* the lock of f1 after that.
C27_Witness ==
    /\ Len(threads) = 2
    /\ threads[1].pc = "panicked"
    /\ threads[1].error = "Error writing to CSV file"
    /\ filter_configs[threads[1].i].output = "f1"
    /\ threads[2].pc = "write"
    /\ lock["f1"] = 2

\* The header rows of output, in the order they are written.
RECURSIVE HeaderRows(_, _)
HeaderRows(output, i) ==
    IF i > Len(filter_configs) THEN <<>>
    ELSE (IF filter_configs[i].output = output
          THEN << RuleHeader(filter_configs[i].filters) >>
          ELSE <<>>)
         \o HeaderRows(output, i + 1)

\* The file of output as one worker leaves it: a function of the
\* configuration and the input alone.
InInputOrder(output) ==
    HeaderRows(output, 1) \o RowsInInputOrder(output, 1, 1)

\* No two different rows of the file are equal on all sort columns.
NoTies(file, sort_columns) ==
    \A x, y \in Range(Tail(file)) :
        KeysEqual(x, y, Head(file), sort_columns) => x = y

\* C28: interleaving independence of the sorted output: in a run that has
\* ended after the sort stage, the file of a rule whose sort columns leave
\* no ties between different rows is the sorted file of the one-worker
\* run, a function of the configuration and the input alone, whatever the
\* numbers of filter and sort workers and their interleaving.
C28_SortedOutputIsDeterministic ==
    (pc = "done" /\ no_sort = Some(FALSE)) =>
        \A i \in 1..Len(config_file) :
            LET cfg == config_file[i]
            IN  (/\ IsSome(cfg.sort_columns)
                 /\ Unwrap(cfg.sort_columns) # <<>>
                 /\ NoTies(InInputOrder(cfg.output), Unwrap(cfg.sort_columns)))
                => disk[cfg.output] =
                        Some(sort_csv_file(InInputOrder(cfg.output),
                                           Unwrap(cfg.sort_columns)))

\* Two filter workers left f1 with its rows in another order than the
\* input's, and the sort stage, with two workers, has put them in order.
C28_Witness ==
    /\ pc = "done"
    /\ no_sort = Some(FALSE)
    /\ Len(threads) = 2
    /\ Len(sort_threads) = 2
    /\ config_file = <<RuleShared, RuleEmptySort>>
    /\ Len(input_rows) = 3
    /\ Unwrap(dispatched)["f1"] # Some(InInputOrder("f1"))
    /\ disk["f1"] # Unwrap(dispatched)["f1"]
    /\ NoTies(InInputOrder("f1"), <<ColB>>)

====
